---- MODULE Spec2Model ----
(***************************************************************************)
(* Model of the parallel sweep of src/data_collection.py: the sample       *)
(* generator (lhs_samples), the worker (_worker), the CSV sink             *)
(* (_write_frame) and the dispatcher loop of run_sweep over a              *)
(* ProcessPoolExecutor.                                                    *)
(***************************************************************************)
EXTENDS Integers, Sequences, FiniteSets, TLC

\* ------------------------------------------------------------------ bounds
\* Longest airfoil list of a param_grid.
MaxAirfoils == 2
\* Largest n_samples of a sweep.
MaxSamples == 2
\* Largest n_samples of a direct lhs_samples call.
MaxLhsN == 2
\* Number of distinguishable positions inside one stratum of the unit cube.
Res == 2

\* Longest list given to Mark4Simulation.
MaxGridLen == 2
\* Largest number of simulation() calls followed in one process.
MaxCalls == 4
\* Largest number of samples a sweep is followed through the pool with.
MaxTasks == 4
\* Largest number of data rows written in a sequence of direct _write_frame calls.
MaxRows == 4
\* The simulation's lifts lie within this distance of the filter's bound.
LiftSpread == 2
\* Longest list of options of one parameter.
MaxOptions == 3

\* --------------------------------------------------------- Python values
\* A Python value: None, a number (the rational n/d) or a string.
None == [t |-> "none", n |-> 0, d |-> 1, s |-> ""]
Num(a) == [t |-> "num", n |-> a, d |-> 1, s |-> ""]
Rat(a, b) == [t |-> "num", n |-> a, d |-> b, s |-> ""]
Str(x) == [t |-> "str", n |-> 0, d |-> 1, s |-> x]

IsNumber(v) == v.t = "num"
NumLt(a, b) == a.n * b.d < b.n * a.d
NumLe(a, b) == a.n * b.d <= b.n * a.d
NumEq(a, b) == a.n * b.d = b.n * a.d
\* Python's == on two values
PyEq(a, b) ==
  IF a.t = "num" /\ b.t = "num" THEN NumEq(a, b)
  ELSE a.t = b.t /\ a.s = b.s

\* ------------------------------------------------------------- constants
DEFAULT_OUTPUT == "Data/AverageFlightData10.csv"
DEFAULT_ERROR_CSV == "Data/AverageFlightData10_errors.csv"
DEFAULT_LOG == "logs/mark4_sweep.log"

CSV_COLUMNS ==
  << "airfoil", "wingspan", "aspect_ratio", "taper_ratio",
     "flapping_period", "air_speed", "angle_of_attack",
     "lift", "induced_drag", "status", "error" >>

ARG_ORDER ==
  << "airfoil", "wingspan", "aspect_ratio", "taper_ratio",
     "flapping_period", "air_speed", "angle_of_attack" >>

VALID_AIRFOILS == << "naca8304", "goe225", "naca2412", "naca0012" >>

Range(seq) == { seq[i] : i \in DOMAIN seq }

\* --------------------------------------------------- parameter declarations
\* A value of param_grid: a Python tuple, a Python list or a bare scalar.
Tuple(vals) == [shape |-> "tuple", vals |-> vals]
List(vals) == [shape |-> "list", vals |-> vals]
Scalar(v) == [shape |-> "scalar", vals |-> << v >>]

AllNumbers(vals) == \A i \in DOMAIN vals : IsNumber(vals[i])

RECURSIVE MinOf(_)
MinOf(vals) ==
  IF Len(vals) = 1 THEN vals[1]
  ELSE LET m == MinOf(Tail(vals))
       IN IF NumLt(m, vals[1]) THEN m ELSE vals[1]

RECURSIVE MaxOf(_)
MaxOf(vals) ==
  IF Len(vals) = 1 THEN vals[1]
  ELSE LET m == MaxOf(Tail(vals))
       IN IF NumLt(vals[1], m) THEN m ELSE vals[1]

\* The class one key of param_grid falls in, with what is kept for it:
\* "continuous" (lo, hi), "constant" (val) or "categorical" (opts).
SplitOne(decl) ==
  LET vals == decl.vals
      none == << >>
  IN IF decl.shape = "tuple" /\ Len(vals) = 2 /\ AllNumbers(vals)
     THEN IF NumLt(vals[1], vals[2])
          THEN [class |-> "continuous", lo |-> vals[1], hi |-> vals[2], val |-> None, opts |-> none]
          ELSE [class |-> "constant", lo |-> None, hi |-> None, val |-> vals[1], opts |-> none]
     ELSE IF decl.shape \in {"list", "tuple"} /\ Len(vals) >= 2 /\ AllNumbers(vals)
     THEN IF NumLt(MinOf(vals), MaxOf(vals))
          THEN [class |-> "continuous", lo |-> MinOf(vals), hi |-> MaxOf(vals), val |-> None, opts |-> none]
          ELSE [class |-> "constant", lo |-> None, hi |-> None, val |-> MinOf(vals), opts |-> none]
     ELSE IF decl.shape \in {"list", "tuple"}
     THEN [class |-> "categorical", lo |-> None, hi |-> None, val |-> None, opts |-> vals]
     ELSE [class |-> "constant", lo |-> None, hi |-> None, val |-> vals[1], opts |-> none]

\* param_grid[k] raises KeyError for a key of order that param_grid lacks.
MissingKeys(param_grid, order) == { k \in Range(order) : k \notin DOMAIN param_grid }

\* The keys of order that are sampled continuously, in the order of order.
ContinuousKeys(param_grid, order) ==
  SelectSeq(order, LAMBDA k : SplitOne(param_grid[k]).class = "continuous")

_validate_and_split_params(param_grid, order) ==
  LET keys == Range(order)
      cont == ContinuousKeys(param_grid, order)
  IN [ continuous_keys |-> cont,
       bounds |-> [ j \in DOMAIN cont |->
                      << SplitOne(param_grid[cont[j]]).lo, SplitOne(param_grid[cont[j]]).hi >> ],
       constant_map |-> [ k \in { x \in keys : SplitOne(param_grid[x]).class = "constant" } |->
                            SplitOne(param_grid[k]).val ],
       categorical_map |-> [ k \in { x \in keys : SplitOne(param_grid[x]).class = "categorical" } |->
                               SplitOne(param_grid[k]).opts ] ]

\* ------------------------------------------------------------ lhs_samples
\* The unit sample of qmc.LatinHypercube(d).random(n), in units of 1/(n*Res):
\* column j holds one point in each of the n strata, in a random order.
IsLatinColumn(col, n) ==
  \A st \in 0 .. n - 1 : \E i \in 1 .. n : col[i] \div Res = st

LatinColumns(n) == { col \in [1 .. n -> 0 .. n * Res - 1] : IsLatinColumn(col, n) }

\* r[j][i]: the coordinate of sample i on dimension j.
LatinHypercube(d, n) == [1 .. d -> LatinColumns(n)]

\* Mutant of Scale: lo + r * hi.
Scale_ByUpperBound(u, den, lo, hi) ==
  Rat(lo.n * hi.d * den + u * (hi.n * lo.d), lo.d * hi.d * den)

\* qmc.scale: lo + r * (hi - lo), with r = u / den.
Scale(u, den, lo, hi) ==
  Rat(lo.n * hi.d * den + u * (hi.n * lo.d - lo.n * hi.d), lo.d * hi.d * den)

\* np.random.choice draws: picks[i][k] is the index drawn for key k of sample i.
Choices(n, categorical) ==
  [1 .. n -> { f \in [ DOMAIN categorical -> 1 .. MaxOptions ] :
                 \A k \in DOMAIN categorical : f[k] <= Len(categorical[k]) }]

lhs_samples(param_grid, order, n_samples, r, picks) ==
  LET split == _validate_and_split_params(param_grid, order)
      cont == split.continuous_keys
      rec(i) ==
        [ k \in Range(order) |->
            IF k \in DOMAIN split.categorical_map
            THEN LET opts == split.categorical_map[k]
                 IN IF Len(opts) = 1 THEN opts[1] ELSE opts[picks[i][k]]
            ELSE IF k \in DOMAIN split.constant_map
            THEN split.constant_map[k]
            ELSE LET j == CHOOSE x \in DOMAIN cont : cont[x] = k
                 IN Scale(r[j][i], n_samples * Res, split.bounds[j][1], split.bounds[j][2]) ]
  IN [ i \in 1 .. n_samples |-> [ p \in DOMAIN order |-> rec(i)[order[p]] ] ]

\* ---------------------------------------------------------------- _worker
\* What one call of the external simulation does: it returns (lift, drag)
\* or raises an exception of type etype with message msg.
Return(lift, drag) == [kind |-> "return", lift |-> lift, drag |-> drag, etype |-> "", msg |-> ""]
Raise(etype, msg) == [kind |-> "raise", lift |-> None, drag |-> None, etype |-> etype, msg |-> msg]

\* The lower bound of the lift filter, in newtons.
LiftFloor == -100

\* f"{lift:.2f}" of a lift that is a whole number of newtons.
Fmt2f(v) == ToString(v.n) \o ".00"

InDatabase(airfoil) == \E i \in DOMAIN VALID_AIRFOILS : PyEq(airfoil, Str(VALID_AIRFOILS[i]))

\* Mutant of InvokesSimulation: the simulation runs before the allow-list check.
InvokesSimulation_Unchecked(args) == TRUE

\* _worker calls simulation() only past the allow-list check.
InvokesSimulation(args) == InDatabase(args[1])

\* Mutant of SkipsLift: the bound itself is filtered out too.
SkipsLift_Inclusive(lift) == NumLe(lift, Num(LiftFloor))

SkipsLift(lift) == NumLt(lift, Num(LiftFloor))

\* Mutant of ExceptionDetail: the type name is left out.
ExceptionDetail_MessageOnly(etype, msg) == msg

ExceptionDetail(etype, msg) == etype \o ": " \o msg

\* Mutant of _worker: the base record is filled with the simulation's result
\* before the plausibility filter, so a skipped record keeps lift and drag.
_worker_SkippedKeepsResult(args, sim) ==
  LET base == [ airfoil |-> args[1], wingspan |-> args[2], aspect_ratio |-> args[3],
                taper_ratio |-> args[4], flapping_period |-> args[5], air_speed |-> args[6],
                angle_of_attack |-> args[7], lift |-> None, induced_drag |-> None,
                status |-> Str(""), error |-> Str("") ]
  IN IF ~InDatabase(args[1])
     THEN [base EXCEPT !.status = Str("error"), !.error = Str("Airfoil not in database!")]
     ELSE IF sim.kind = "raise"
     THEN [base EXCEPT !.status = Str("error"), !.error = Str(ExceptionDetail(sim.etype, sim.msg))]
     ELSE IF sim.lift = None
     THEN [base EXCEPT !.status = Str("error"),
                       !.error = Str(ExceptionDetail("ValueError", "Simulation returned None for lift"))]
     ELSE IF SkipsLift(sim.lift)
     THEN [base EXCEPT !.lift = sim.lift, !.induced_drag = sim.drag,
                       !.status = Str("skipped"),
                       !.error = Str("Extreme negative lift (lift=" \o Fmt2f(sim.lift) \o " N)")]
     ELSE [base EXCEPT !.lift = sim.lift, !.induced_drag = sim.drag,
                       !.status = Str("ok"), !.error = Str("")]

_worker(args, sim) ==
  LET base == [ airfoil |-> args[1], wingspan |-> args[2], aspect_ratio |-> args[3],
                taper_ratio |-> args[4], flapping_period |-> args[5], air_speed |-> args[6],
                angle_of_attack |-> args[7], lift |-> None, induced_drag |-> None,
                status |-> Str(""), error |-> Str("") ]
  IN IF ~InDatabase(args[1])
     THEN [base EXCEPT !.status = Str("error"), !.error = Str("Airfoil not in database!")]
     ELSE IF sim.kind = "raise"
     THEN [base EXCEPT !.status = Str("error"), !.error = Str(ExceptionDetail(sim.etype, sim.msg))]
     ELSE IF sim.lift = None
     THEN [base EXCEPT !.status = Str("error"),
                       !.error = Str(ExceptionDetail("ValueError", "Simulation returned None for lift"))]
     ELSE IF SkipsLift(sim.lift)
     THEN [base EXCEPT !.status = Str("skipped"),
                       !.error = Str("Extreme negative lift (lift=" \o Fmt2f(sim.lift) \o " N)")]
     ELSE [base EXCEPT !.lift = sim.lift, !.induced_drag = sim.drag,
                       !.status = Str("ok"), !.error = Str("")]

\* ------------------------------------------------------------ _write_frame
\* os.path.dirname of the paths of a SweepConfig.
Dirname(path) ==
  CASE path = DEFAULT_OUTPUT -> "Data"
    [] path = DEFAULT_ERROR_CSV -> "Data"
    [] path = DEFAULT_LOG -> "logs"
    [] OTHER -> ""

\* csv.DictWriter writes None as the empty string and any other value as str(value).
Cell(v) == IF v = None THEN Str("") ELSE v

Header == [ c \in DOMAIN CSV_COLUMNS |-> Str(CSV_COLUMNS[c]) ]
RowOf(rec) == [ c \in DOMAIN CSV_COLUMNS |-> Cell(rec[CSV_COLUMNS[c]]) ]

ensure_parent_dir(d, path) == IF Dirname(path) # "" THEN d \cup {Dirname(path)} ELSE d

AbsentFile == [exists |-> FALSE, lines |-> << >>]

\* Mutant of WrittenFile: the header is written on every call.
WrittenFile_AlwaysHeader(file, df_rows) ==
  [ exists |-> TRUE,
    lines |-> file.lines \o << Header >> \o [ i \in DOMAIN df_rows |-> RowOf(df_rows[i]) ] ]

\* Mutant of WrittenFile: the file is opened with mode "w" instead of "a".
WrittenFile_Truncates(file, df_rows) ==
  LET write_header == ~file.exists
  IN [ exists |-> TRUE,
       lines |-> (IF write_header THEN << Header >> ELSE << >>)
                   \o [ i \in DOMAIN df_rows |-> RowOf(df_rows[i]) ] ]

\* The lines of the file at a path after _write_frame(df_rows, path).
WrittenFile(file, df_rows) ==
  LET write_header == ~file.exists
  IN [ exists |-> TRUE,
       lines |-> file.lines \o (IF write_header THEN << Header >> ELSE << >>)
                            \o [ i \in DOMAIN df_rows |-> RowOf(df_rows[i]) ] ]

\* Mutant of _write_frame: whether the header is due is remembered once for
\* all paths instead of being asked of the path written to.
_write_frame_HeaderOncePerDisk(fs, df_rows, path) ==
  IF df_rows = << >>
  THEN [fs EXCEPT !.dirs = ensure_parent_dir(fs.dirs, path)]
  ELSE [ dirs |-> ensure_parent_dir(fs.dirs, path),
         files |-> [fs.files EXCEPT ![path] =
                      IF \E q \in DOMAIN fs.files : fs.files[q].exists
                      THEN [ exists |-> TRUE,
                             lines |-> @.lines \o [ i \in DOMAIN df_rows |-> RowOf(df_rows[i]) ] ]
                      ELSE WrittenFile(@, df_rows)] ]

\* _write_frame on the file system fs = [dirs, files].
_write_frame(fs, df_rows, path) ==
  IF df_rows = << >>
  THEN [fs EXCEPT !.dirs = ensure_parent_dir(fs.dirs, path)]
  ELSE [ dirs |-> ensure_parent_dir(fs.dirs, path),
         files |-> [fs.files EXCEPT ![path] = WrittenFile(fs.files[path], df_rows)] ]

\* ------------------------------------------------------------------ state
VARIABLES
  cfg,        \* the SweepConfig of the run: param_grid and n_samples
  pc,         \* position of the orchestrating process in run_sweep
  raised,     \* type name of the exception that left run_sweep, "" if none
  samples,    \* run_sweep's list of sample tuples
  pool,       \* the ProcessPoolExecutor: "none", "open" or "shutdown"
  broken,     \* the executor is broken: a worker process died
  futures,    \* one entry per submitted sample, in submission order
  yielded,    \* indices of the futures as_completed has handed out
  consumed,   \* the records of the loop body, in consumption order
  counts,     \* ok_count, skip_count, err_count
  fs,         \* directories and CSV files on disk
  log,        \* the log file
  call,       \* the last direct call of a function and its result
  cache,      \* _airfoil_cache of one process and the Airfoil objects it built
  mark4       \* a run of the grid collector Mark4Simulation

vars == << cfg, pc, raised, samples, pool, broken, futures, yielded, consumed,
           counts, fs, log, call, cache, mark4 >>

CsvPaths == {DEFAULT_OUTPUT, DEFAULT_ERROR_CSV}

EmptyFs == [dirs |-> {}, files |-> [p \in CsvPaths |-> AbsentFile]]
NoCall == [fn |-> "", args |-> << >>, result |-> << >>]
NoCfg == [param_grid |-> << >>, n_samples |-> 0]

\* _airfoil_cache = {} of a process that has imported simulation: entries
\* are the (name, object) pairs of the dict, built the names of the Airfoil
\* objects constructed so far (an object is known by its index in built),
\* calls the name and object of every call of simulation(), 0 for no object.
EmptyCache == [entries |-> {}, built |-> << >>, calls |-> << >>]

\* No run of Mark4Simulation has been started.
NoMark4 == [pc |-> "idle", lists |-> << >>, at |-> << >>, row |-> 0, sims |-> 0, before |-> 0]

\* max_workers of SweepConfig
max_workers == 2

\* ------------------------------------------------------------ the log file
LogEntry(kind, nums, text) == [kind |-> kind, nums |-> nums, text |-> text]
Logged(l, entry) == [l EXCEPT !.lines = Append(@, entry)]

\* ------------------------------------------------------- inputs of a sweep
AirfoilChoices == {"naca2412", "unknown_airfoil"}

AirfoilLists ==
  UNION { [1 .. k -> { Str(a) : a \in AirfoilChoices }] : k \in 0 .. MaxAirfoils }

\* A param_grid with every parameter but the airfoil held constant, each at
\* a value of its own.
ConstantGrid(airfoils) ==
  [ k \in Range(ARG_ORDER) |->
      IF k = "airfoil" THEN List(airfoils)
      ELSE Scalar(Num(CHOOSE p \in DOMAIN ARG_ORDER : ARG_ORDER[p] = k)) ]

Without(grid, key) == [ k \in DOMAIN grid \ {key} |-> grid[k] ]

SweepGrids ==
  { ConstantGrid(a) : a \in AirfoilLists }
    \cup { Without(ConstantGrid(a), k) : a \in AirfoilLists, k \in Range(ARG_ORDER) }

SweepConfigs == [ param_grid : SweepGrids, n_samples : 1 .. MaxSamples ]

\* What the simulation does in a sweep: a plausible result, an implausible
\* one, or a failure.
SweepOutcomes ==
  { Return(Num(5), Num(1)), Return(Num(LiftFloor - 1), Num(1)),
    Raise("RuntimeError", "solver diverged") }

\* str(e) of the BrokenProcessPool set on the futures of a broken executor.
BrokenProcessPoolText ==
  "A process in the process pool was terminated abruptly while the future was running or pending."

\* ---------------------------------------------------------------- run_sweep
Init ==
  /\ cfg \in SweepConfigs
  /\ pc = "start"
  /\ raised = ""
  /\ samples = << >>
  /\ pool = "none"
  /\ broken = FALSE
  /\ futures = << >>
  /\ yielded = {}
  /\ consumed = << >>
  /\ counts = [ok |-> 0, skip |-> 0, err |-> 0]
  /\ fs = EmptyFs
  /\ log = AbsentFile
  /\ call = NoCall
  /\ cache = EmptyCache
  /\ mark4 = NoMark4

\* Mutant of setup_logging: the start of the run is logged at once.
setup_logging_LogsStart(f, l) ==
  [ fs |-> [f EXCEPT !.dirs = @ \cup {Dirname(DEFAULT_LOG)}],
    log |-> [exists |-> TRUE, lines |-> Append(l.lines, [kind |-> "start", nums |-> << >>, text |-> ""])] ]

\* setup_logging: the log directory is made and the log file opened for append.
setup_logging(f, l) ==
  [ fs |-> [f EXCEPT !.dirs = @ \cup {Dirname(DEFAULT_LOG)}],
    log |-> [l EXCEPT !.exists = TRUE] ]

SetupLogging ==
  /\ pc = "start"
  /\ fs' = setup_logging(fs, log).fs
  /\ log' = setup_logging(fs, log).log
  /\ pc' = "airfoils"
  /\ UNCHANGED << cfg, raised, samples, pool, broken, futures, yielded, consumed, counts, call, cache, mark4 >>

all_airfoils ==
  IF "airfoil" \in DOMAIN cfg.param_grid THEN cfg.param_grid["airfoil"].vals ELSE << >>

NoAirfoils ==
  /\ pc = "airfoils"
  /\ all_airfoils = << >>
  /\ raised' = "ValueError"
  /\ pc' = "raised"
  /\ UNCHANGED << cfg, samples, pool, broken, futures, yielded, consumed, counts, fs, log, call, cache, mark4 >>

\* Mutant of grid_for_airfoil: the airfoil list is not narrowed to one airfoil.
grid_for_airfoil_Unnarrowed(airfoil) ==
  [ k \in (DOMAIN cfg.param_grid) \cup {"airfoil"} |-> cfg.param_grid[k] ]

grid_for_airfoil(airfoil) ==
  [ k \in (DOMAIN cfg.param_grid) \cup {"airfoil"} |->
      IF k = "airfoil" THEN List(<< airfoil >>) ELSE cfg.param_grid[k] ]

SamplingKeyError ==
  /\ pc = "airfoils"
  /\ all_airfoils # << >>
  /\ MissingKeys(grid_for_airfoil(all_airfoils[1]), ARG_ORDER) # {}
  /\ raised' = "KeyError"
  /\ pc' = "raised"
  /\ UNCHANGED << cfg, samples, pool, broken, futures, yielded, consumed, counts, fs, log, call, cache, mark4 >>

RECURSIVE Flatten(_)
Flatten(lists) ==
  IF lists = << >> THEN << >> ELSE Head(lists) \o Flatten(Tail(lists))

\* The draws lhs_samples may make for one airfoil's grid.
Draws(grid, n) ==
  LET split == _validate_and_split_params(grid, ARG_ORDER)
  IN [ r : LatinHypercube(Len(split.continuous_keys), n),
       picks : Choices(n, split.categorical_map) ]

\* samples.extend(lhs_samples(...)) for each airfoil in turn.
SweepSamples(draws) ==
  Flatten([ a \in DOMAIN all_airfoils |->
              lhs_samples(grid_for_airfoil(all_airfoils[a]), ARG_ORDER, cfg.n_samples,
                          draws[a].r, draws[a].picks) ])

GenerateSamples ==
  /\ pc = "airfoils"
  /\ all_airfoils # << >>
  /\ MissingKeys(grid_for_airfoil(all_airfoils[1]), ARG_ORDER) = {}
  /\ \E draws \in [ DOMAIN all_airfoils ->
                      UNION { Draws(grid_for_airfoil(all_airfoils[a]), cfg.n_samples) :
                                a \in DOMAIN all_airfoils } ] :
       samples' = SweepSamples(draws)
  /\ log' = Logged(log, LogEntry("prepared", << Len(samples'), cfg.n_samples >>, ""))
  /\ pc' = "pool"
  /\ UNCHANGED << cfg, raised, pool, broken, futures, yielded, consumed, counts, fs, call, cache, mark4 >>

total == Len(samples)

CreatePool ==
  /\ pc = "pool"
  /\ total <= MaxTasks
  /\ pool' = "open"
  /\ pc' = "submit"
  /\ UNCHANGED << cfg, raised, samples, broken, futures, yielded, consumed, counts, fs, log, call, cache, mark4 >>

\* The record of a future that has no result yet.
NoRecord == [ k \in Range(CSV_COLUMNS) |-> None ]

\* A future and what is known of its call: exc: its result is an exception;
\* calls: how often its call entered simulation(); sim: what the simulation
\* did; lost: its process was killed while running it.
Future(state) ==
  [ state |-> state, exc |-> FALSE, rec |-> NoRecord, calls |-> 0,
    sim |-> Raise("", ""), lost |-> FALSE ]

\* ex.submit(_worker, s) for the next sample; a broken executor refuses it.
Submit ==
  /\ pc = "submit"
  /\ Len(futures) < total
  /\ IF broken
     THEN /\ raised' = "BrokenProcessPool"
          /\ pc' = "raised"
          /\ pool' = "shutdown"
          /\ UNCHANGED futures
     ELSE /\ futures' = Append(futures, Future("queued"))
          /\ pc' = IF Len(futures') = total THEN "consume" ELSE "submit"
          /\ UNCHANGED << raised, pool >>
  /\ UNCHANGED << cfg, samples, broken, yielded, consumed, counts, fs, log, call, cache, mark4 >>

\* Mutant of InState: a call that ended with an error record counts as
\* queued again, as under a retry policy.
InState_RetriesErrors(st) ==
  { i \in DOMAIN futures :
      \/ futures[i].state = st
      \/ st = "queued" /\ futures[i].state = "done" /\ futures[i].rec.status = Str("error") }

InState(st) == { i \in DOMAIN futures : futures[i].state = st }

Min(S) == CHOOSE x \in S : \A y \in S : x <= y

\* A free worker process takes the oldest queued call and enters _worker.
StartTask ==
  /\ pool = "open"
  /\ ~broken
  /\ InState("queued") # {}
  /\ Cardinality(InState("running")) < max_workers
  /\ LET i == Min(InState("queued"))
     IN futures' = [futures EXCEPT ![i].state = "running",
                                   ![i].calls = IF InvokesSimulation(samples[i]) THEN @ + 1 ELSE @]
  /\ UNCHANGED << cfg, pc, raised, samples, pool, broken, yielded, consumed, counts, fs, log, call, cache, mark4 >>

\* The outcomes the simulation call of a sample may have; a sample that never
\* reaches the simulation has none to choose.
OutcomesOf(args) ==
  IF InvokesSimulation(args) THEN SweepOutcomes ELSE { Raise("", "") }

\* _worker returns and the future of its call gets the record.
FinishTask(i) ==
  /\ pool = "open"
  /\ futures[i].state = "running"
  /\ \E sim \in OutcomesOf(samples[i]) :
       futures' = [futures EXCEPT ![i].state = "done", ![i].sim = sim,
                                  ![i].rec = _worker(samples[i], sim)]
  /\ UNCHANGED << cfg, pc, raised, samples, pool, broken, yielded, consumed, counts, fs, log, call, cache, mark4 >>

\* The futures after a worker process died: the executor fails every call
\* that has not completed with BrokenProcessPool.
BrokenFutures(fut, dead) ==
  [ j \in DOMAIN fut |->
      IF fut[j].state \in {"queued", "running"}
      THEN [fut[j] EXCEPT !.state = "done", !.exc = TRUE, !.lost = (j = dead)]
      ELSE fut[j] ]

\* The process running the call of sample i terminates abnormally.
KillWorker(i) ==
  /\ pool = "open"
  /\ ~broken
  /\ futures[i].state = "running"
  /\ broken' = TRUE
  /\ futures' = BrokenFutures(futures, i)
  /\ UNCHANGED << cfg, pc, raised, samples, pool, yielded, consumed, counts, fs, log, call, cache, mark4 >>

\* The keyword arguments of simulation() in the order _worker passes them.
SimulationOrder ==
  << "airfoil", "flapping_period", "air_speed", "angle_of_attack",
     "wingspan", "aspect_ratio", "taper_ratio" >>

\* Mutant of SyntheticRecord: the sample is zipped with the names in the
\* order of the simulation call instead of ARG_ORDER.
SyntheticRecord_BySimulationOrder(params, text) ==
  [ k \in Range(CSV_COLUMNS) |->
      CASE k = "lift" -> None
        [] k = "induced_drag" -> None
        [] k = "status" -> Str("error")
        [] k = "error" -> Str(text)
        [] OTHER -> params[CHOOSE p \in DOMAIN SimulationOrder : SimulationOrder[p] = k] ]

\* The record run_sweep builds when fut.result() raises.
SyntheticRecord(params, text) ==
  [ k \in Range(CSV_COLUMNS) |->
      CASE k = "lift" -> None
        [] k = "induced_drag" -> None
        [] k = "status" -> Str("error")
        [] k = "error" -> Str(text)
        [] OTHER -> params[CHOOSE p \in DOMAIN ARG_ORDER : ARG_ORDER[p] = k] ]

\* Mutant of ResultOf: the parameters of a failed future are looked up by
\* its position in the completion order instead of by the future.
ResultOf_ByPosition(i) ==
  IF futures[i].exc
  THEN SyntheticRecord(samples[Len(consumed) + 1], BrokenProcessPoolText)
  ELSE futures[i].rec

\* rec of one pass of the loop: fut.result(), or the record built from
\* futures[fut] when it raises.
ResultOf(i) ==
  IF futures[i].exc THEN SyntheticRecord(samples[i], BrokenProcessPoolText) ELSE futures[i].rec

\* Mutant of Destination: a skipped record is merged into the primary stream.
Destination_SkippedToPrimary(rec) ==
  IF rec.status \in {Str("ok"), Str("skipped")} THEN DEFAULT_OUTPUT ELSE DEFAULT_ERROR_CSV

\* The stream a record goes to: a CSV path, or "" for none.
Destination(rec) ==
  IF rec.status = Str("ok") THEN DEFAULT_OUTPUT
  ELSE IF rec.status = Str("skipped") THEN ""
  ELSE DEFAULT_ERROR_CSV

\* Mutant of Counted: the skipped branch forgets its counter.
Counted_DropsSkipped(c, rec) ==
  IF rec.status = Str("ok") THEN [c EXCEPT !.ok = @ + 1]
  ELSE IF rec.status = Str("skipped") THEN c
  ELSE [c EXCEPT !.err = @ + 1]

Counted(c, rec) ==
  IF rec.status = Str("ok") THEN [c EXCEPT !.ok = @ + 1]
  ELSE IF rec.status = Str("skipped") THEN [c EXCEPT !.skip = @ + 1]
  ELSE [c EXCEPT !.err = @ + 1]

\* Mutant of Progress: done is taken as ok + err.
Progress_OmitsSkipped(c) ==
  LogEntry("progress", << c.ok + c.err, total, c.ok, c.skip, c.err >>, "")

Progress(c) == LogEntry("progress", << c.ok + c.skip + c.err, total, c.ok, c.skip, c.err >>, "")

\* Mutant of Consume: the loop runs over futures in submission order and
\* waits for each result in turn.
Consume_InSubmissionOrder(i) ==
  /\ pc = "consume"
  /\ futures[i].state = "done"
  /\ i \notin yielded
  /\ \A j \in 1 .. i - 1 : j \in yielded
  /\ LET rec == ResultOf(i)
         c == Counted(counts, rec)
         l == IF rec.status = Str("ok") THEN log
              ELSE IF rec.status = Str("skipped")
              THEN Logged(log, LogEntry("skipped", << >>, rec.error.s))
              ELSE Logged(log, LogEntry("failed", << >>, rec.error.s))
     IN /\ counts' = c
        /\ fs' = IF Destination(rec) = "" THEN fs ELSE _write_frame(fs, << rec >>, Destination(rec))
        /\ log' = Logged(l, Progress(c))
        /\ consumed' = Append(consumed, [idx |-> i, rec |-> rec])
        /\ yielded' = yielded \cup {i}
  /\ UNCHANGED << cfg, pc, raised, samples, pool, broken, futures, call, cache, mark4 >>

\* One pass of the loop over as_completed(futures).
Consume(i) ==
  /\ pc = "consume"
  /\ futures[i].state = "done"
  /\ i \notin yielded
  /\ LET rec == ResultOf(i)
         c == Counted(counts, rec)
         l == IF rec.status = Str("ok") THEN log
              ELSE IF rec.status = Str("skipped")
              THEN Logged(log, LogEntry("skipped", << >>, rec.error.s))
              ELSE Logged(log, LogEntry("failed", << >>, rec.error.s))
     IN /\ counts' = c
        /\ fs' = IF Destination(rec) = "" THEN fs ELSE _write_frame(fs, << rec >>, Destination(rec))
        /\ log' = Logged(l, Progress(c))
        /\ consumed' = Append(consumed, [idx |-> i, rec |-> rec])
        /\ yielded' = yielded \cup {i}
  /\ UNCHANGED << cfg, pc, raised, samples, pool, broken, futures, call, cache, mark4 >>

\* Mutant of Finish: the summary gives its counts in the order ok, err, skipped.
Finish_SwapsCounts ==
  /\ pc = "consume"
  /\ yielded = DOMAIN futures
  /\ pool' = "shutdown"
  /\ log' = Logged(log, LogEntry("complete", << counts.ok, counts.err, counts.skip >>, ""))
  /\ pc' = "done"
  /\ UNCHANGED << cfg, raised, samples, broken, futures, yielded, consumed, counts, fs, call, cache, mark4 >>

\* as_completed is exhausted: the executor shuts down and the summary is logged.
Finish ==
  /\ pc = "consume"
  /\ yielded = DOMAIN futures
  /\ pool' = "shutdown"
  /\ log' = Logged(log, LogEntry("complete", << counts.ok, counts.skip, counts.err >>, ""))
  /\ pc' = "done"
  /\ UNCHANGED << cfg, raised, samples, broken, futures, yielded, consumed, counts, fs, call, cache, mark4 >>

Next ==
  \/ SetupLogging
  \/ NoAirfoils
  \/ SamplingKeyError
  \/ GenerateSamples
  \/ CreatePool
  \/ Submit
  \/ StartTask
  \/ \E i \in DOMAIN futures : FinishTask(i)
  \/ \E i \in DOMAIN futures : KillWorker(i)
  \/ \E i \in DOMAIN futures : Consume(i)
  \/ Finish

Spec == Init /\ [][Next]_vars

\* ------------------------------------------------- direct calls of _worker
Idle ==
  /\ raised = ""
  /\ samples = << >>
  /\ pool = "none"
  /\ broken = FALSE
  /\ futures = << >>
  /\ yielded = {}
  /\ consumed = << >>
  /\ counts = [ok |-> 0, skip |-> 0, err |-> 0]
  /\ log = AbsentFile
  /\ cfg = NoCfg
  /\ cache = EmptyCache
  /\ mark4 = NoMark4

WorkerAirfoils == Range(VALID_AIRFOILS) \cup {"unknown_airfoil"}

WorkerArgs == { [ p \in DOMAIN ARG_ORDER |-> IF p = 1 THEN Str(a) ELSE Num(p) ] : a \in WorkerAirfoils }

Lifts == {None} \cup { Num(l) : l \in LiftFloor - LiftSpread .. LiftFloor + LiftSpread }
Drags == {None, Num(0), Num(LiftFloor - 1)}

WorkerOutcomes ==
  { Return(l, d) : l \in Lifts, d \in Drags }
    \cup { Raise(e, m) : e \in {"RuntimeError", "ValueError", "ZeroDivisionError"},
                         m \in {"", "solver diverged"} }

InitWorker ==
  /\ Idle
  /\ fs = EmptyFs
  /\ pc = "call"
  /\ \E args \in WorkerArgs, sim \in WorkerOutcomes :
       call = [fn |-> "_worker", args |-> << args, sim >>, result |-> << >>]

CallWorker ==
  /\ pc = "call"
  /\ call.fn = "_worker"
  /\ call' = [call EXCEPT !.result = << _worker(call.args[1], call.args[2]) >>]
  /\ pc' = "returned"
  /\ UNCHANGED << cfg, raised, samples, pool, broken, futures, yielded, consumed, counts, fs, log, cache, mark4 >>

SpecWorker == InitWorker /\ [][CallWorker]_vars

\* ---------------------------------------------- direct calls of lhs_samples
\* The declarations a parameter is given in the grids of a direct call.
Declarations ==
  { Tuple(<< Num(1), Num(3) >>), Tuple(<< Num(3), Num(3) >>), Tuple(<< Num(5), Num(3) >>),
    Tuple(<< Str("a"), Str("b") >>),
    List(<< Num(3), Num(5) >>), List(<< Num(4) >>), List(<< Num(2), Num(2) >>),
    List(<< Str("a"), Str("b"), Str("c") >>), List(<< Str("a") >>),
    Scalar(Num(2)), Scalar(Str("x")) }

\* The parameters whose declaration varies over Declarations.
VariedKeys == {"wingspan", "air_speed"}

LhsGrids ==
  { [ k \in Range(ARG_ORDER) |->
        IF k \in VariedKeys THEN d[k]
        ELSE IF k = "airfoil" THEN List(<< Str("naca2412") >>)
        ELSE Scalar(Num(1)) ] : d \in [VariedKeys -> Declarations] }

\* A grid with one more name than lhs_samples is asked for.
WithExtra(grid, key, vals) == [ k \in DOMAIN grid \cup {key} |-> IF k = key THEN vals ELSE grid[k] ]

ExtraKey == "mach"

\* The grids of a direct call: every name of ARG_ORDER declared, one name
\* more declared, or one name of ARG_ORDER not declared.
LhsCallGrids ==
  LhsGrids
    \cup { WithExtra(g, ExtraKey, Scalar(Num(2))) : g \in LhsGrids }
    \cup { Without(g, k) : g \in LhsGrids, k \in {"airfoil", "air_speed"} }

InitLhs ==
  /\ Idle
  /\ fs = EmptyFs
  /\ pc = "call"
  /\ \E grid \in LhsCallGrids, n \in 1 .. MaxLhsN :
       call = [fn |-> "lhs_samples", args |-> << grid, n >>, result |-> << >>]

CallLhs ==
  /\ pc = "call"
  /\ call.fn = "lhs_samples"
  /\ MissingKeys(call.args[1], ARG_ORDER) = {}
  /\ \E draw \in Draws(call.args[1], call.args[2]) :
       call' = [call EXCEPT !.result =
                  << lhs_samples(call.args[1], ARG_ORDER, call.args[2], draw.r, draw.picks) >>]
  /\ pc' = "returned"
  /\ UNCHANGED << cfg, raised, samples, pool, broken, futures, yielded, consumed, counts, fs, log, cache, mark4 >>

\* param_grid[k] of a name that is not declared raises KeyError.
CallLhsKeyError ==
  /\ pc = "call"
  /\ call.fn = "lhs_samples"
  /\ MissingKeys(call.args[1], ARG_ORDER) # {}
  /\ pc' = "raised"
  /\ raised' = "KeyError"
  /\ UNCHANGED << cfg, samples, pool, broken, futures, yielded, consumed, counts, fs, log, call, cache, mark4 >>

NextLhs == CallLhs \/ CallLhsKeyError

SpecLhs == InitLhs /\ [][NextLhs]_vars

\* --------------------------------------------- direct calls of _write_frame
SinkRecords ==
  { _worker([ p \in DOMAIN ARG_ORDER |-> IF p = 1 THEN Str("naca2412") ELSE Num(p) ], sim) :
      sim \in { Return(Num(5), Num(1)), Raise("RuntimeError", "solver diverged") } }

RowLists == UNION { [1 .. k -> SinkRecords] : k \in 0 .. 2 }

DataRows(file) == SelectSeq(file.lines, LAMBDA line : line # Header)

RowsOnDisk == Len(DataRows(fs.files[DEFAULT_OUTPUT])) + Len(DataRows(fs.files[DEFAULT_ERROR_CSV]))

InitSink ==
  /\ Idle
  /\ fs = EmptyFs
  /\ pc = "sink"
  /\ call = NoCall

CallWriteFrame ==
  /\ pc = "sink"
  /\ \E df_rows \in RowLists, path \in CsvPaths :
       /\ RowsOnDisk + Len(df_rows) <= MaxRows
       /\ fs' = _write_frame(fs, df_rows, path)
       /\ call' = [fn |-> "_write_frame", args |-> << df_rows, path >>, result |-> << >>]
  /\ UNCHANGED << cfg, pc, raised, samples, pool, broken, futures, yielded, consumed, counts, log, cache, mark4 >>

SpecSink == InitSink /\ [][CallWriteFrame]_vars

\* ------------------------- one list of records written to two fresh paths
TwiceRecords ==
  SinkRecords
    \cup { _worker([ p \in DOMAIN ARG_ORDER |-> IF p = 1 THEN Str("goe225") ELSE Num(p) ],
                   Return(Num(LiftFloor - 1), None)) }

TwiceLists == UNION { [1 .. k -> TwiceRecords] : k \in 0 .. MaxRows }

InitTwice ==
  /\ Idle
  /\ fs = EmptyFs
  /\ pc = "first"
  /\ \E df_rows \in TwiceLists :
       call = [fn |-> "_write_frame", args |-> << df_rows >>, result |-> << >>]

WriteFirst ==
  /\ pc = "first"
  /\ fs' = _write_frame(fs, call.args[1], DEFAULT_OUTPUT)
  /\ pc' = "second"
  /\ UNCHANGED << cfg, raised, samples, pool, broken, futures, yielded, consumed, counts, log, call, cache, mark4 >>

WriteSecond ==
  /\ pc = "second"
  /\ fs' = _write_frame(fs, call.args[1], DEFAULT_ERROR_CSV)
  /\ pc' = "twice"
  /\ UNCHANGED << cfg, raised, samples, pool, broken, futures, yielded, consumed, counts, log, call, cache, mark4 >>

NextTwice == WriteFirst \/ WriteSecond

SpecTwice == InitTwice /\ [][NextTwice]_vars

\* ------------------------------------- simulation() calls in one process
\* Mutant of CachedAirfoil: the lookup asks for the airplane's name
\* (mw_airfoil + "_wing"), which is never a key, so every call constructs.
CachedAirfoil_LooksUpWingName(c, mw_airfoil, constructs) ==
  IF constructs
  THEN LET airfoil_obj == Len(c.built) + 1
       IN [ entries |-> { e \in c.entries : e.name # mw_airfoil }
                          \cup { [name |-> mw_airfoil, obj |-> airfoil_obj] },
            built |-> Append(c.built, mw_airfoil),
            calls |-> Append(c.calls, [name |-> mw_airfoil, obj |-> airfoil_obj]) ]
  ELSE [c EXCEPT !.calls = Append(@, [name |-> mw_airfoil, obj |-> 0])]

\* The cache after simulation(mw_airfoil=...) has got its airfoil_obj: the
\* object of the entry under that name, or a newly constructed one stored
\* under it; constructs: ps.geometry.Airfoil returns an object instead of
\* raising, in which case the call ends without one.
CachedAirfoil(c, mw_airfoil, constructs) ==
  IF \E e \in c.entries : e.name = mw_airfoil
  THEN LET airfoil_obj == (CHOOSE e \in c.entries : e.name = mw_airfoil).obj
       IN [c EXCEPT !.calls = Append(@, [name |-> mw_airfoil, obj |-> airfoil_obj])]
  ELSE IF constructs
  THEN LET airfoil_obj == Len(c.built) + 1
       IN [ entries |-> { e \in c.entries : e.name # mw_airfoil }
                          \cup { [name |-> mw_airfoil, obj |-> airfoil_obj] },
            built |-> Append(c.built, mw_airfoil),
            calls |-> Append(c.calls, [name |-> mw_airfoil, obj |-> airfoil_obj]) ]
  ELSE [c EXCEPT !.calls = Append(@, [name |-> mw_airfoil, obj |-> 0])]

CacheAirfoils == {"naca2412", "goe225", "unknown_airfoil"}

InitCache ==
  /\ Idle
  /\ fs = EmptyFs
  /\ pc = "simulate"
  /\ call = NoCall

CallSimulation ==
  /\ pc = "simulate"
  /\ Len(cache.calls) < MaxCalls
  /\ \E mw_airfoil \in CacheAirfoils, constructs \in BOOLEAN :
       /\ cache' = CachedAirfoil(cache, mw_airfoil, constructs)
       /\ call' = [fn |-> "simulation", args |-> << Str(mw_airfoil) >>, result |-> << >>]
  /\ UNCHANGED << cfg, pc, raised, samples, pool, broken, futures, yielded, consumed, counts, fs, log, mark4 >>

SpecCache == InitCache /\ [][CallSimulation]_vars

\* ------------------------------------------ the grid collector and run_sweep
\* The for loops of Mark4Simulation, outermost first, by the list each runs over.
LoopOrder ==
  << "Airfoils", "wingspans", "aspect_ratios", "taper_ratios",
     "FlappingPeriods", "Air_Speeds", "Angles_of_Attacks" >>

\* csv.writer writes the nine values of write_to_csv as one line, None as "".
GridRow(af, ws, ar, tr, fp, ap, aa, lift, induced_drag) ==
  LET vals == << af, ws, ar, tr, fp, ap, aa, lift, induced_drag >>
  IN [ c \in DOMAIN vals |-> Cell(vals[c]) ]

\* write_to_csv: the parent directory is made and the line appended.
write_to_csv(f, filename, row) ==
  [ dirs |-> f.dirs \cup {Dirname(filename)},
    files |-> [f.files EXCEPT ![filename] = [exists |-> TRUE, lines |-> Append(@.lines, row)]] ]

\* The loop variables af, ws, ar, tr, fp, ap, aa at the indices at.
LoopValue(lists, at, d) == lists[LoopOrder[d]][at[d]]

\* Mutant of NextPass: the loops are nested the other way round, the loop
\* over Airfoils innermost.
NextPass_AirfoilsInnermost(lists, at) ==
  LET more == { d \in DOMAIN LoopOrder : at[d] < Len(lists[LoopOrder[d]]) }
  IN IF more = {} THEN << >>
     ELSE LET outermost == CHOOSE d \in more : \A e \in more : d <= e
          IN [ d \in DOMAIN LoopOrder |->
                 IF d > outermost THEN at[d] ELSE IF d = outermost THEN at[d] + 1 ELSE 1 ]

\* The indices of the next pass of the innermost loop body after at, or
\* << >> when every loop is exhausted: the deepest loop that has a next
\* element takes it and the loops inside it start over.
NextPass(lists, at) ==
  LET more == { d \in DOMAIN LoopOrder : at[d] < Len(lists[LoopOrder[d]]) }
  IN IF more = {} THEN << >>
     ELSE LET deepest == CHOOSE d \in more : \A e \in more : e <= d
          IN [ d \in DOMAIN LoopOrder |->
                 IF d < deepest THEN at[d] ELSE IF d = deepest THEN at[d] + 1 ELSE 1 ]

\* The number of passes of the loop body over lists.
RECURSIVE Passes(_, _)
Passes(lists, d) ==
  IF d > Len(LoopOrder) THEN 1 ELSE Len(lists[LoopOrder[d]]) * Passes(lists, d + 1)

\* The lists of a run: n[d] elements, all different, for the loop at depth d.
GridLists(n) ==
  [ name \in Range(LoopOrder) |->
      LET d == CHOOSE e \in DOMAIN LoopOrder : LoopOrder[e] = name
      IN [ i \in 1 .. n[d] |-> IF d = 1 THEN Str(VALID_AIRFOILS[i]) ELSE Num(10 * d + i) ] ]

\* The lists of the runs: all of one element but for at most two, of which
\* one may be empty; more lists of two or more elements make more
\* combinations than the runs are followed for.
Mark4Lists ==
  { GridLists([ d \in DOMAIN LoopOrder |-> IF d = a THEN x ELSE IF d = b THEN y ELSE 1 ]) :
      a \in DOMAIN LoopOrder, b \in DOMAIN LoopOrder, x \in 0 .. MaxGridLen, y \in 1 .. MaxGridLen }

GridFile == fs.files[DEFAULT_OUTPUT]

InitCollectors ==
  /\ Idle
  /\ fs = EmptyFs
  /\ pc = "collect"
  /\ call = NoCall

\* The disk as an earlier run of a collector may have left it: nothing, one
\* line of Mark4Simulation, or the header and one line of run_sweep.
EarlierDisks ==
  { EmptyFs,
    write_to_csv(EmptyFs, DEFAULT_OUTPUT,
                 GridRow(Str("goe225"), Num(1), Num(2), Num(3), Num(4), Num(5), Num(6), Num(5), Num(1))),
    _write_frame(EmptyFs, << CHOOSE r \in SinkRecords : r.status = Str("ok") >>, DEFAULT_OUTPUT) }

InitMark4 ==
  /\ Idle
  /\ fs \in EarlierDisks
  /\ pc = "collect"
  /\ call = NoCall

\* Mark4Simulation is called: filename and row are set and the loops entered.
Mark4Start ==
  /\ pc = "collect"
  /\ mark4.pc = "idle"
  /\ \E lists \in Mark4Lists :
       /\ Len(GridFile.lines) + Passes(lists, 1) <= MaxRows
       /\ mark4' = [ pc |-> IF Passes(lists, 1) = 0 THEN "done" ELSE "running",
                     lists |-> lists,
                     at |-> [ d \in DOMAIN LoopOrder |-> 1 ],
                     row |-> 0, sims |-> 0, before |-> Len(GridFile.lines) ]
  /\ UNCHANGED << cfg, pc, raised, samples, pool, broken, futures, yielded, consumed, counts, fs, log, call, cache >>

\* One pass of the loop body: row += 1, the simulation call, which returns a
\* lift and an induced drag or raises, and write_to_csv.
Mark4Pass ==
  /\ pc = "collect"
  /\ mark4.pc = "running"
  /\ \E sim \in { Return(Num(5), Num(1)), Return(None, None), Raise("RuntimeError", "solver diverged") } :
       IF sim.kind = "raise"
       THEN /\ mark4' = [mark4 EXCEPT !.pc = "raised", !.row = @ + 1, !.sims = @ + 1]
            /\ UNCHANGED fs
       ELSE /\ fs' = write_to_csv(fs, DEFAULT_OUTPUT,
                                  GridRow(LoopValue(mark4.lists, mark4.at, 1),
                                          LoopValue(mark4.lists, mark4.at, 2),
                                          LoopValue(mark4.lists, mark4.at, 3),
                                          LoopValue(mark4.lists, mark4.at, 4),
                                          LoopValue(mark4.lists, mark4.at, 5),
                                          LoopValue(mark4.lists, mark4.at, 6),
                                          LoopValue(mark4.lists, mark4.at, 7),
                                          sim.lift, sim.drag))
            /\ mark4' = [mark4 EXCEPT !.row = @ + 1, !.sims = @ + 1,
                                      !.at = IF NextPass(mark4.lists, @) = << >> THEN @
                                             ELSE NextPass(mark4.lists, @),
                                      !.pc = IF NextPass(mark4.lists, mark4.at) = << >>
                                             THEN "done" ELSE "running"]
  /\ UNCHANGED << cfg, pc, raised, samples, pool, broken, futures, yielded, consumed, counts, log, call, cache >>

\* run_sweep, run with its default paths, consumes an ok record.
SweepPass ==
  /\ pc = "collect"
  /\ mark4.pc # "running"
  /\ Len(GridFile.lines) + (IF GridFile.exists THEN 1 ELSE 2) <= MaxRows
  /\ \E rec \in { r \in SinkRecords : r.status = Str("ok") } :
       fs' = _write_frame(fs, << rec >>, DEFAULT_OUTPUT)
  /\ UNCHANGED << cfg, pc, raised, samples, pool, broken, futures, yielded, consumed, counts, log, call, cache, mark4 >>

NextMark4 == Mark4Start \/ Mark4Pass

SpecMark4 == InitMark4 /\ [][NextMark4]_vars

NextCollectors == Mark4Start \/ Mark4Pass \/ SweepPass

SpecCollectors == InitCollectors /\ [][NextCollectors]_vars

\* ------------------------------------------------------------------ claims
ColumnOf(name) == CHOOSE c \in DOMAIN CSV_COLUMNS : CSV_COLUMNS[c] = name

ConsumedWith(status) == SelectSeq(consumed, LAMBDA e : e.rec.status = Str(status))
RowsOf(entries) == [ k \in DOMAIN entries |-> RowOf(entries[k].rec) ]
LogLines(kind) == SelectSeq(log.lines, LAMBDA e : e.kind = kind)

\* C1: the counters add up to the number of records consumed, every future is
\* consumed at most once, and when run_sweep is done every one of the N
\* samples has exactly one record and ok + skip + err = N; the sample whose
\* process was killed has a record with status error.
C1_EveryOutcomeCounted ==
  /\ counts.ok = Len(ConsumedWith("ok"))
  /\ counts.skip = Len(ConsumedWith("skipped"))
  /\ counts.err = Len(ConsumedWith("error"))
  /\ counts.ok + counts.skip + counts.err = Len(consumed)
  /\ \A k, m \in DOMAIN consumed : consumed[k].idx = consumed[m].idx => k = m
  /\ pc = "done" =>
       /\ counts.ok + counts.skip + counts.err = Len(samples)
       /\ \A i \in DOMAIN samples :
            Cardinality({ k \in DOMAIN consumed : consumed[k].idx = i }) = 1
       /\ \A k \in DOMAIN consumed :
            futures[consumed[k].idx].lost => consumed[k].rec.status = Str("error")

C1_Witness ==
  /\ pc = "done"
  /\ Len(samples) >= 3
  /\ \E i \in DOMAIN futures : futures[i].lost
  /\ counts.ok >= 1
  /\ counts.err >= 2

\* C2: only the sample whose worker process died gets a synthetic error
\* record; every other sample runs through _worker and its record is the one
\* _worker made from its own simulation outcome.
C2_OnlyLostSampleFails ==
  \A k \in DOMAIN consumed :
    LET f == futures[consumed[k].idx]
    IN IF f.lost
       THEN consumed[k].rec = SyntheticRecord(samples[consumed[k].idx], BrokenProcessPoolText)
       ELSE /\ ~f.exc
            /\ consumed[k].rec = _worker(samples[consumed[k].idx], f.sim)

\* C3: the data rows of the primary CSV are exactly the rows of the consumed
\* ok records and those of the error CSV exactly the rows of the consumed
\* error records, in consumption order; a skipped record is in neither file
\* and has one log entry; so every primary row has status ok and every error
\* row status error.
C3_RoutedByStatus ==
  /\ DataRows(fs.files[DEFAULT_OUTPUT]) = RowsOf(ConsumedWith("ok"))
  /\ DataRows(fs.files[DEFAULT_ERROR_CSV]) = RowsOf(ConsumedWith("error"))
  /\ Len(LogLines("skipped")) = Len(ConsumedWith("skipped"))
  /\ \A row \in Range(DataRows(fs.files[DEFAULT_OUTPUT])) : row[ColumnOf("status")] = Str("ok")
  /\ \A row \in Range(DataRows(fs.files[DEFAULT_ERROR_CSV])) : row[ColumnOf("status")] = Str("error")
  /\ \A e \in Range(consumed) : e.rec.status \in {Str("ok"), Str("skipped"), Str("error")}

C3_Witness ==
  /\ pc = "done"
  /\ counts.ok >= 1
  /\ counts.skip >= 1
  /\ counts.err >= 1

\* C4: a record of _worker is skipped exactly when the simulation returned a
\* lift strictly below -100; a lift equal to -100 gives status ok.
C4_FilterExclusiveBelow ==
  (pc = "returned" /\ call.fn = "_worker") =>
    LET args == call.args[1]
        sim == call.args[2]
        rec == call.result[1]
    IN /\ rec.status = Str("skipped") <=>
            /\ InDatabase(args[1])
            /\ sim.kind = "return"
            /\ sim.lift # None
            /\ sim.lift.n < LiftFloor * sim.lift.d
       /\ (InDatabase(args[1]) /\ sim.kind = "return" /\ sim.lift = Num(LiftFloor))
            => rec.status = Str("ok")
       /\ rec.status = Str("skipped") => rec.lift = None

C4_Witness ==
  /\ pc = "returned"
  /\ call.fn = "_worker"
  /\ call.args[2].kind = "return"
  /\ call.args[2].lift = Num(LiftFloor)
  /\ call.result[1].status = Str("ok")

\* C5: a sample whose airfoil is not in VALID_AIRFOILS never reaches the
\* simulation, the record _worker returns for it has status error and the
\* detail "Airfoil not in database!", and its row is in the error CSV while
\* no row of the primary CSV carries such an airfoil.
C5_UnknownAirfoilIsError ==
  /\ \A i \in DOMAIN futures :
       ~InDatabase(samples[i][1]) =>
         /\ futures[i].calls = 0
         /\ (futures[i].state = "done" /\ ~futures[i].exc) =>
              /\ futures[i].rec.status = Str("error")
              /\ futures[i].rec.error = Str("Airfoil not in database!")
              /\ futures[i].rec.lift = None
  /\ \A e \in Range(consumed) :
       ~InDatabase(e.rec.airfoil) => RowOf(e.rec) \in Range(fs.files[DEFAULT_ERROR_CSV].lines)
  /\ \A row \in Range(DataRows(fs.files[DEFAULT_OUTPUT])) : InDatabase(row[ColumnOf("airfoil")])

C5_Witness ==
  /\ pc = "done"
  /\ counts.ok >= 1
  /\ \E e \in Range(consumed) :
       /\ e.rec.airfoil = Str("unknown_airfoil")
       /\ e.rec.error = Str("Airfoil not in database!")
       /\ RowOf(e.rec) \in Range(fs.files[DEFAULT_ERROR_CSV].lines)

\* C6: a call whose simulation raised completes normally with a record of
\* status error whose detail is "<type name>: <message>"; the exception of a
\* simulation never leaves run_sweep.
C6_SimulationFailureContained ==
  /\ \A i \in DOMAIN futures :
       (futures[i].state = "done" /\ futures[i].sim.kind = "raise" /\ futures[i].sim.etype # "") =>
         /\ ~futures[i].exc
         /\ futures[i].rec.status = Str("error")
         /\ futures[i].rec.error = Str(futures[i].sim.etype \o ": " \o futures[i].sim.msg)
  /\ raised \notin { sim.etype : sim \in { o \in SweepOutcomes : o.kind = "raise" } }

C6_Witness ==
  /\ pc = "done"
  /\ ~broken
  /\ counts.ok >= 1
  /\ \E k \in DOMAIN consumed :
       /\ futures[consumed[k].idx].sim.kind = "raise"
       /\ consumed[k].rec.error = Str("RuntimeError: solver diverged")
       /\ k < Len(consumed)

\* What a declaration asks of a sample value, as the claim C7 reads it: a
\* numeric pair (low, high) with low < high is a range, a list is a set of
\* options, a bare value is a constant.
InRange(v, lo, hi) == IsNumber(v) /\ NumLe(lo, v) /\ NumLe(v, hi)
OneOf(v, opts) == \E o \in DOMAIN opts : PyEq(v, opts[o])

SatisfiesAsDeclared(v, decl) ==
  CASE decl.shape = "tuple" /\ Len(decl.vals) = 2 /\ AllNumbers(decl.vals)
         /\ NumLt(decl.vals[1], decl.vals[2]) -> InRange(v, decl.vals[1], decl.vals[2])
    [] decl.shape = "list" -> OneOf(v, decl.vals)
    [] decl.shape = "scalar" -> PyEq(v, decl.vals[1])
    [] OTHER -> TRUE

\* The same with a numeric list of two or more values read as the code reads
\* it: the range from its smallest to its largest value.
SatisfiesAsSampled(v, decl) ==
  CASE decl.shape = "tuple" /\ Len(decl.vals) = 2 /\ AllNumbers(decl.vals)
         /\ NumLt(decl.vals[1], decl.vals[2]) -> InRange(v, decl.vals[1], decl.vals[2])
    [] decl.shape = "list" /\ Len(decl.vals) >= 2 /\ AllNumbers(decl.vals) ->
         InRange(v, MinOf(decl.vals), MaxOf(decl.vals))
    [] decl.shape = "list" -> OneOf(v, decl.vals)
    [] decl.shape = "scalar" -> PyEq(v, decl.vals[1])
    [] OTHER -> TRUE

LhsReturned == pc = "returned" /\ call.fn = "lhs_samples"

\* C7 as claimed: lhs_samples returns n tuples of len(ARG_ORDER) values, and
\* every value satisfies its declaration, a value of a list being one of the
\* listed options.
C7_ValuesAsDeclared ==
  LhsReturned =>
    /\ Len(call.result[1]) = call.args[2]
    /\ \A i \in DOMAIN call.result[1] :
         /\ DOMAIN call.result[1][i] = DOMAIN ARG_ORDER
         /\ \A p \in DOMAIN ARG_ORDER :
              SatisfiesAsDeclared(call.result[1][i][p], call.args[1][ARG_ORDER[p]])

\* C7 as amended: the same, but a value of a list of two or more numbers
\* lies between the smallest and the largest listed number.
C7_ValuesAsSampled ==
  LhsReturned =>
    /\ Len(call.result[1]) = call.args[2]
    /\ \A i \in DOMAIN call.result[1] :
         /\ DOMAIN call.result[1][i] = DOMAIN ARG_ORDER
         /\ \A p \in DOMAIN ARG_ORDER :
              SatisfiesAsSampled(call.result[1][i][p], call.args[1][ARG_ORDER[p]])

C7_Witness ==
  /\ LhsReturned
  /\ call.args[2] >= 2
  /\ \E p \in DOMAIN ARG_ORDER :
       LET decl == call.args[1][ARG_ORDER[p]]
       IN /\ decl.shape = "list"
          /\ Len(decl.vals) >= 2
          /\ AllNumbers(decl.vals)
          /\ ~OneOf(call.result[1][1][p], decl.vals)
  /\ \E p \in DOMAIN ARG_ORDER :
       LET decl == call.args[1][ARG_ORDER[p]]
       IN decl.shape = "list" /\ Len(decl.vals) >= 2 /\ ~AllNumbers(decl.vals)

\* C8: the samples are n_samples tuples for the first listed airfoil, then
\* n_samples for the second, and so on, each carrying its airfoil: k * n in
\* all, and as many futures once all are submitted.
C8_EqualSamplesPerAirfoil ==
  /\ samples # << >> =>
       /\ Len(samples) = Len(all_airfoils) * cfg.n_samples
       /\ \A a \in DOMAIN all_airfoils : \A j \in 1 .. cfg.n_samples :
            samples[(a - 1) * cfg.n_samples + j][1] = all_airfoils[a]
  /\ pc \in {"pool", "submit", "consume", "done"} => samples # << >>
  /\ pc \in {"consume", "done"} => Len(futures) = Len(all_airfoils) * cfg.n_samples

C8_Witness ==
  /\ pc = "done"
  /\ Len(all_airfoils) = 2
  /\ all_airfoils[1] # all_airfoils[2]
  /\ cfg.n_samples = 2
  /\ Len(futures) = 4

\* A file that exists starts with the header and holds it once.
HeaderOnce(file) ==
  file.exists =>
    /\ file.lines # << >>
    /\ file.lines[1] = Header
    /\ Cardinality({ k \in DOMAIN file.lines : file.lines[k] = Header }) = 1

\* A step keeps every line a file held, in place, and only adds after them.
AppendOnly(before, after) ==
  before.exists =>
    /\ after.exists
    /\ Len(after.lines) >= Len(before.lines)
    /\ SubSeq(after.lines, 1, Len(before.lines)) = before.lines

\* C9: over any sequence of _write_frame calls each CSV file that exists has
\* the header as its first line and nowhere else, and every call leaves the
\* lines already in a file as they were.
C9_HeaderOnceAppendOnly ==
  /\ [](\A p \in CsvPaths : HeaderOnce(fs.files[p]))
  /\ [][\A p \in CsvPaths : AppendOnly(fs.files[p], fs'.files[p])]_vars

C9_Witness ==
  /\ call.fn = "_write_frame"
  /\ Len(call.args[1]) >= 1
  /\ Len(fs.files[call.args[2]].lines) >= 4
  /\ \A p \in CsvPaths : fs.files[p].exists

ConfigurationError == pc = "raised" /\ raised \in {"ValueError", "KeyError"}

\* C10 as claimed: when run_sweep fails on its configuration no pool exists,
\* nothing was submitted, and no file or directory has been created.
C10_NothingCreated ==
  ConfigurationError =>
    /\ pool = "none"
    /\ futures = << >>
    /\ fs = EmptyFs
    /\ log = AbsentFile

\* C10 as amended: when run_sweep fails on its configuration no pool exists,
\* nothing was submitted, neither CSV file nor the CSV directory exists and no
\* entry has been written to the log; setup_logging has made the log
\* directory and opened the log file.
C10_NothingButLogSetup ==
  ConfigurationError =>
    /\ pool = "none"
    /\ futures = << >>
    /\ \A p \in CsvPaths : ~fs.files[p].exists
    /\ fs.dirs = {Dirname(DEFAULT_LOG)}
    /\ log.exists
    /\ log.lines = << >>

C10_Witness ==
  /\ ConfigurationError
  /\ raised = "KeyError"
  /\ all_airfoils # << >>
  /\ log.exists

\* ------------------------------------------------------- C11: validation
LhsEnded == call.fn = "lhs_samples" /\ pc \in {"returned", "raised"}

\* The names of order that param_grid has sampled continuously keep low < high.
RangesOrdered(param_grid, order) ==
  LET split == _validate_and_split_params(param_grid, order)
  IN \A j \in DOMAIN split.continuous_keys :
       NumLt(split.bounds[j][1], split.bounds[j][2])

\* C11: a call of lhs_samples fails whenever the names its grid declares are
\* not exactly those of ARG_ORDER, a name more as well as a name less, and a
\* grid that passes has low < high for every range it samples continuously.
C11_FailsUnlessNamesMatch ==
  LhsEnded =>
    /\ DOMAIN call.args[1] # Range(ARG_ORDER) => pc = "raised"
    /\ pc = "returned" => RangesOrdered(call.args[1], ARG_ORDER)

\* ------------------------------------------- C12: incremental persistence
\* The class of records a CSV path holds.
ClassOf(path) == IF path = DEFAULT_OUTPUT THEN "ok" ELSE "error"

\* C12: at every point of a sweep the primary CSV has ok_count data rows and
\* the error CSV err_count data rows; a file exists exactly when a record of
\* its class has been consumed, and is then the header followed by the rows
\* of the consumed records of its class; a sweep of N samples that all end ok
\* leaves a primary CSV of N + 1 lines and no error CSV.
C12_IncrementalPersistence ==
  /\ Len(DataRows(fs.files[DEFAULT_OUTPUT])) = counts.ok
  /\ Len(DataRows(fs.files[DEFAULT_ERROR_CSV])) = counts.err
  /\ \A path \in CsvPaths :
       LET file == fs.files[path]
           mine == ConsumedWith(ClassOf(path))
       IN /\ file.exists <=> mine # << >>
          /\ file.lines = IF mine = << >> THEN << >> ELSE << Header >> \o RowsOf(mine)
  /\ (pc = "done" /\ counts.ok = total) =>
       /\ Len(fs.files[DEFAULT_OUTPUT].lines) = total + 1
       /\ ~fs.files[DEFAULT_ERROR_CSV].exists

C12_Witness ==
  /\ pc = "done"
  /\ total >= 3
  /\ counts.ok = total
  /\ Len(fs.files[DEFAULT_OUTPUT].lines) = total + 1
  /\ ~fs.files[DEFAULT_ERROR_CSV].exists

\* ------------------------------------------------ C13: completion order
\* The record sample i ends with, from what its call did alone.
OutcomeRecord(i) ==
  IF futures[i].exc
  THEN SyntheticRecord(samples[i], BrokenProcessPoolText)
  ELSE _worker(samples[i], futures[i].sim)

SamplesEnding(status) == { i \in DOMAIN samples : OutcomeRecord(i).status = Str(status) }

Occurrences(seq, x) == Cardinality({ k \in DOMAIN seq : seq[k] = x })

\* C13: when run_sweep is done, the counts and the multiset of data rows of
\* each CSV are those of the outcomes of the samples' calls, whatever the
\* order the calls completed and were consumed in.
C13_OrderIndependent ==
  pc = "done" =>
    /\ counts = [ok |-> Cardinality(SamplesEnding("ok")),
                 skip |-> Cardinality(SamplesEnding("skipped")),
                 err |-> Cardinality(SamplesEnding("error"))]
    /\ \A path \in CsvPaths :
         LET rows == DataRows(fs.files[path])
             mine == SamplesEnding(ClassOf(path))
         IN /\ Len(rows) = Cardinality(mine)
            /\ \A i \in mine :
                 Occurrences(rows, RowOf(OutcomeRecord(i)))
                   = Cardinality({ j \in mine : RowOf(OutcomeRecord(j)) = RowOf(OutcomeRecord(i)) })

C13_Witness ==
  /\ pc = "done"
  /\ ~broken
  /\ total >= 3
  /\ \E k \in DOMAIN consumed : consumed[k].idx > k
  /\ counts.ok >= 1
  /\ counts.skip >= 1
  /\ counts.err >= 1

\* ------------------------------------------------- C14: at most once
\* The call of future i has entered _worker.
Entered(i) ==
  \/ futures[i].state = "running"
  \/ futures[i].state = "done" /\ ~futures[i].exc
  \/ futures[i].lost

\* C14: every sample has at most one future, a call that entered _worker
\* with an airfoil of the database has invoked the simulation exactly once
\* and any other call never, and a future that was consumed, whatever its
\* status, stays done: it is not run again.
C14_SimulatedOnce ==
  /\ Len(futures) <= total
  /\ pc \in {"consume", "done"} => Len(futures) = total
  /\ \A i \in DOMAIN futures :
       /\ futures[i].calls <= 1
       /\ futures[i].calls = 1 => InvokesSimulation(samples[i])
       /\ (Entered(i) /\ InvokesSimulation(samples[i])) => futures[i].calls = 1
       /\ futures[i].state = "queued" => futures[i].calls = 0
       /\ i \in yielded => futures[i].state = "done"

C14_Witness ==
  /\ pc = "done"
  /\ total >= 3
  /\ \E i, j \in DOMAIN futures :
       /\ futures[i].calls = 1 /\ ~futures[i].exc /\ futures[i].rec.status = Str("error")
       /\ futures[j].calls = 1 /\ futures[j].rec.status = Str("skipped")
  /\ \E i \in DOMAIN futures : futures[i].calls = 0 /\ ~futures[i].exc

\* ------------------------------------------------- C15: run to completion
\* run_sweep has been left, by return or by an exception, after it created
\* the pool.
SweepLeft == pool = "shutdown"

\* C15: a sweep that has created its pool goes on while anything is left to
\* do and is left only by returning after the summary, with every one of
\* its N samples submitted and consumed.
C15_RunsToCompletion ==
  /\ (pool = "open" /\ pc # "done") => ENABLED Next
  /\ SweepLeft =>
       /\ pc = "done"
       /\ Len(futures) = total
       /\ yielded = DOMAIN futures
       /\ Len(LogLines("complete")) = 1

\* --------------------------------------------- C16: same list, same file
\* C16: the same list of records written by _write_frame to two paths that
\* did not exist leaves two files with the same content: none for an empty
\* list, else the header line and one line per record, in the order of the
\* list, that holds the values of the eleven CSV_COLUMNS in their order.
C16_SameListSameFile ==
  pc = "twice" =>
    LET df_rows == call.args[1]
        first == fs.files[DEFAULT_OUTPUT]
        second == fs.files[DEFAULT_ERROR_CSV]
    IN /\ first = second
       /\ first.exists <=> df_rows # << >>
       /\ df_rows # << >> =>
            /\ Len(first.lines) = Len(df_rows) + 1
            /\ first.lines[1] = [ c \in 1 .. 11 |-> Str(CSV_COLUMNS[c]) ]
            /\ \A i \in DOMAIN df_rows :
                 /\ DOMAIN first.lines[i + 1] = 1 .. 11
                 /\ \A c \in 1 .. 11 :
                      first.lines[i + 1][c] =
                        IF df_rows[i][CSV_COLUMNS[c]] = None THEN Str("")
                        ELSE df_rows[i][CSV_COLUMNS[c]]

C16_Witness ==
  /\ pc = "twice"
  /\ Len(call.args[1]) >= 2
  /\ \E i, j \in DOMAIN call.args[1] : call.args[1][i] # call.args[1][j]
  /\ fs.files[DEFAULT_OUTPUT].exists
  /\ fs.files[DEFAULT_ERROR_CSV].exists

\* ------------------------------------------------- C17: nothing waits
\* C17: no result is consumed before all N samples are submitted, and a
\* submission does not wait for a result; a future that is done can be
\* consumed at once, whichever other calls are still running; and while no
\* more than one call is running, a queued call can start.
C17_NeverWaits ==
  /\ consumed # << >> => Len(futures) = total
  /\ (pc = "submit" /\ Len(futures) < total) => ENABLED Submit
  /\ \A i \in DOMAIN futures :
       (pc = "consume" /\ futures[i].state = "done" /\ i \notin yielded) => ENABLED Consume(i)
  /\ (pool = "open" /\ ~broken /\ InState("queued") # {} /\ Cardinality(InState("running")) <= 1)
       => ENABLED StartTask

\* The first call submitted is still running when every other result has
\* been consumed and persisted.
C17_Witness ==
  /\ pc = "consume"
  /\ ~broken
  /\ total >= 3
  /\ futures[1].state = "running"
  /\ yielded = DOMAIN futures \ {1}
  /\ counts.ok >= 1
  /\ Len(DataRows(fs.files[DEFAULT_OUTPUT])) = counts.ok

\* ------------------------------------------------- C18: progress entries
\* The index in log.lines of the k-th entry of a kind.
RECURSIVE PositionOf(_, _)
PositionOf(kind, k) ==
  IF k = 0 THEN 0
  ELSE LET prev == PositionOf(kind, k - 1)
       IN CHOOSE p \in prev + 1 .. Len(log.lines) :
            /\ log.lines[p].kind = kind
            /\ \A q \in prev + 1 .. p - 1 : log.lines[q].kind # kind

\* C18: the log has one progress entry per consumed result; the k-th states
\* done = k = ok + skipped + err and the total N, its three counters are
\* those of the first k consumed records and none is below the entry
\* before; done never exceeds N and is N in the last entry of a sweep that
\* is done; the entry of a failed or skipped result comes between the
\* progress entries before and of that result.
C18_ProgressPerResult ==
  LET P == LogLines("progress")
  IN /\ Len(P) = Len(consumed)
     /\ \A k \in DOMAIN P :
          LET first == SubSeq(consumed, 1, k)
              has(status) == Len(SelectSeq(first, LAMBDA e : e.rec.status = Str(status)))
          IN /\ P[k].nums[1] = k
             /\ P[k].nums[1] = P[k].nums[3] + P[k].nums[4] + P[k].nums[5]
             /\ P[k].nums[2] = total
             /\ P[k].nums[1] <= total
             /\ P[k].nums[3] = has("ok")
             /\ P[k].nums[4] = has("skipped")
             /\ P[k].nums[5] = has("error")
             /\ k > 1 => \A c \in 3 .. 5 : P[k - 1].nums[c] <= P[k].nums[c]
             /\ { log.lines[q].kind :
                    q \in PositionOf("progress", k - 1) + 1 .. PositionOf("progress", k) - 1 }
                    \ {"prepared"}
                  = CASE consumed[k].rec.status = Str("ok") -> {}
                      [] consumed[k].rec.status = Str("skipped") -> {"skipped"}
                      [] OTHER -> {"failed"}
     /\ pc = "done" => P[Len(P)].nums[1] = total

C18_Witness ==
  /\ pc = "done"
  /\ total >= 3
  /\ counts.ok >= 1
  /\ counts.skip >= 1
  /\ counts.err >= 1
  /\ Len(LogLines("progress")) = total

\* ------------------------------------------------------- C19: the run log
\* The log entry run_sweep writes for a consumed record that is not ok.
DetailEntry(rec) ==
  LogEntry(IF rec.status = Str("skipped") THEN "skipped" ELSE "failed", << >>, rec.error.s)

\* The log of a sweep that is done: first the start entry with the numbers
\* startNums, then the detail of every consumed record that is not ok, in
\* consumption order and next to nothing but progress entries, last the one
\* summary, whose counts are those of the consumed records of each class.
LogOfSweep(startNums) ==
  LET notOk == SelectSeq(consumed, LAMBDA e : e.rec.status # Str("ok"))
      last == Len(log.lines)
  IN /\ log.lines[1] = LogEntry("prepared", startNums, "")
     /\ Len(LogLines("prepared")) = 1
     /\ SelectSeq(log.lines, LAMBDA e : e.kind \in {"failed", "skipped"})
          = [ k \in DOMAIN notOk |-> DetailEntry(notOk[k].rec) ]
     /\ \A q \in 2 .. last - 1 : log.lines[q].kind \in {"failed", "skipped", "progress"}
     /\ log.lines[last] =
          LogEntry("complete",
                   << Len(ConsumedWith("ok")), Len(ConsumedWith("skipped")), Len(ConsumedWith("error")) >>,
                   "")

C20_RecordCarriesSample ==
  \A k \in DOMAIN consumed :
    LET rec == consumed[k].rec
        sample == samples[consumed[k].idx]
    IN /\ DOMAIN rec = Range(CSV_COLUMNS)
       /\ DOMAIN sample = 1 .. 7
       /\ \A p \in 1 .. 7 : rec[ARG_ORDER[p]] = sample[p]
       /\ futures[consumed[k].idx].exc =>
            /\ rec.lift = None
            /\ rec.induced_drag = None
            /\ rec.status = Str("error")
            /\ rec.error.t = "str"
            /\ rec.error.s # ""

C20_Witness ==
  /\ \E k \in DOMAIN consumed : futures[consumed[k].idx].exc
  /\ \E k \in DOMAIN consumed :
       /\ ~futures[consumed[k].idx].exc
       /\ consumed[k].rec.status = Str("ok")
  /\ \A k \in DOMAIN consumed :
       \A p, q \in 2 .. 7 : p # q => samples[consumed[k].idx][p] # samples[consumed[k].idx][q]

\* ------------------------------------------------ C21: lift iff status ok
WorkerReturned == pc = "returned" /\ call.fn = "_worker"

\* C21: the record _worker returns, whatever the simulation returned or
\* raised, has a status of ok, skipped or error and a lift exactly when the
\* status is ok; a record that is not ok has neither lift nor induced drag
\* and a detail, and a record that is ok has the empty detail.
C21_LiftIffOk ==
  WorkerReturned =>
    LET rec == call.result[1]
    IN /\ rec.status \in {Str("ok"), Str("skipped"), Str("error")}
       /\ rec.lift # None <=> rec.status = Str("ok")
       /\ rec.status # Str("ok") =>
            /\ rec.lift = None
            /\ rec.induced_drag = None
            /\ rec.error # Str("")
       /\ rec.status = Str("ok") => rec.error = Str("")

C21_Witness ==
  /\ WorkerReturned
  /\ call.args[2].kind = "return"
  /\ call.args[2].lift = Num(LiftFloor - 1)
  /\ call.args[2].drag # None
  /\ call.result[1].status = Str("skipped")
  /\ call.result[1].lift = None

\* ------------------------------------------------- C22: the airfoil cache
\* The calls of simulation() that got an airfoil object.
PastLookup == { k \in DOMAIN cache.calls : cache.calls[k].obj # 0 }

\* C22: after any sequence of simulation calls in one process the cache has
\* one entry for each name a call got an object for and no other; the
\* objects constructed are those of the entries, one per name, so no entry
\* was built twice or replaced, and each was built by the first call that
\* got an object for its name; and every call with a name, the first and
\* the later ones, got the object that is in the cache for it.
C22_OneObjectPerName ==
  /\ { e.name : e \in cache.entries } = { cache.calls[k].name : k \in PastLookup }
  /\ \A e1, e2 \in cache.entries : e1.name = e2.name => e1 = e2
  /\ Len(cache.built) = Cardinality(cache.entries)
  /\ \A e \in cache.entries :
       /\ e.obj \in DOMAIN cache.built
       /\ cache.built[e.obj] = e.name
       /\ Cardinality({ b \in DOMAIN cache.built : cache.built[b] = e.name }) = 1
       /\ LET first == Min({ k \in PastLookup : cache.calls[k].name = e.name })
          IN e.obj = 1 + Cardinality({ cache.calls[k].name : k \in { j \in PastLookup : j < first } })
  /\ \A k \in PastLookup :
       [name |-> cache.calls[k].name, obj |-> cache.calls[k].obj] \in cache.entries

C22_Witness ==
  /\ Len(cache.calls) = MaxCalls
  /\ Cardinality({ k \in PastLookup : cache.calls[k].name = "naca2412" }) >= 2
  /\ \E k \in PastLookup : cache.calls[k].name = "goe225"
  /\ \E k \in DOMAIN cache.calls : cache.calls[k].obj = 0
  /\ Len(cache.built) = 2

\* -------------------------------------- C23: the default primary CSV file
\* C23: whenever the file at the default primary output path has lines, the
\* first is the CSV_COLUMNS header and every other line has eleven fields.
C23_HeaderAndElevenFields ==
  GridFile.lines # << >> =>
    /\ GridFile.lines[1] = Header
    /\ \A k \in 2 .. Len(GridFile.lines) : Len(GridFile.lines[k]) = 11

\* ------------------------------------------ C24: the grid collector's run
\* The lines the current run of Mark4Simulation has added to its file.
Appended == SubSeq(GridFile.lines, mark4.before + 1, Len(GridFile.lines))

\* The index into the list of the loop at depth d in the k-th combination
\* of nested-loop order: the innermost loop runs fastest.
IndexAt(lists, k, d) ==
  (((k - 1) \div Passes(lists, d + 1)) % Len(lists[LoopOrder[d]])) + 1

\* C24: in a run of Mark4Simulation every pass so far made one simulation
\* call; each pass but one whose simulation raised appended one line, so a
\* run that raised at pass k has appended k - 1 lines and a run that is done
\* as many as the product of the lengths of its seven lists; the k-th line
\* holds the values of the k-th combination in nested-loop order (Airfoils
\* outermost, Angles_of_Attacks innermost) and no combination comes twice.
C24_EveryCombinationOnce ==
  mark4.pc # "idle" =>
    LET l == mark4.lists
        product == Len(l.Airfoils) * Len(l.wingspans) * Len(l.aspect_ratios) * Len(l.taper_ratios)
                     * Len(l.FlappingPeriods) * Len(l.Air_Speeds) * Len(l.Angles_of_Attacks)
    IN /\ mark4.sims = mark4.row
       /\ mark4.row <= product
       /\ Len(Appended) = IF mark4.pc = "raised" THEN mark4.row - 1 ELSE mark4.row
       /\ \A k \in DOMAIN Appended :
            /\ Len(Appended[k]) = 9
            /\ \A d \in DOMAIN LoopOrder :
                 Appended[k][d] = l[LoopOrder[d]][IndexAt(l, k, d)]
       /\ \A k, m \in DOMAIN Appended :
            SubSeq(Appended[k], 1, 7) = SubSeq(Appended[m], 1, 7) => k = m
       /\ mark4.pc = "done" <=> (mark4.row = product /\ Len(Appended) = product)
       /\ mark4.pc = "running" =>
            \A d \in DOMAIN LoopOrder : mark4.at[d] = IndexAt(l, mark4.row + 1, d)

C24_Witness ==
  /\ mark4.pc = "raised"
  /\ mark4.row = 3
  /\ Len(Appended) = 2
  /\ Len(mark4.lists.wingspans) = 2
  /\ Len(mark4.lists.Air_Speeds) = 2

====
